---- MODULE Spec2Model ----
(***************************************************************************)
(* Model of the file splitter / joiner scripts:                            *)
(*   splitter_utility.py  split_file(file_path, output_dir, chunk_size)    *)
(*   splitter.py          split_file(file_path, chunk_size)                *)
(*   joiner_utility.py    join_from_manifest(manifest_path, output_dir)    *)
(*   joiner.py            join_from_manifest(manifest_path)                *)
(*                                                                         *)
(* The file system is part of the state.  A directory path is a sequence   *)
(* of path components, a file path is a directory path with the file name  *)
(* appended, and a name is a sequence of characters (multi-character       *)
(* literals such as ".part" are kept as one token).  Byte files live in    *)
(* `files` (path -> sequence of bytes); files that hold a JSON manifest    *)
(* live in `manifests` (path -> the decoded dictionary, a function from    *)
(* the keys that are present to their values).                              *)
(***************************************************************************)
EXTENDS Integers, Sequences, FiniteSets, TLC

\* ---------------------------------------------------------------- bounds
MaxLen == 4          \* longest source file, in bytes
MaxChunk == 3        \* largest chunk size tried
MaxExcess == 1       \* by how much os.path.getsize may exceed the readable bytes
\* part index at which a split that does not terminate is cut off
MaxIdx == MaxLen + 2

\* Program constants, scaled from MiB to bytes so that a part spans blocks.
WRITE_BLOCK == 2     \* splitter_utility.py: WRITE_BLOCK = 8 * 1024 * 1024
JOIN_BLOCK == 2      \* joiner*.py: p.read(1024 * 1024)
MD5_RANGE == 11      \* number of distinct digests of the modelled hash

Byte == 0..MaxLen

Min(a, b) == IF a < b THEN a ELSE b

\* ------------------------------------------------------------ path names
None == <<"None">>

JoinPath(dir, name) == Append(dir, name)
Dirname(path) == SubSeq(path, 1, Len(path) - 1)
Basename(path) == path[Len(path)]

\* os.makedirs(d, exist_ok=True): d and every missing ancestor
Makedirs(ds, d) == ds \cup {SubSeq(d, 1, n) : n \in 1..Len(d)}

FileDir == << <<"d">> >>
OtherDir == << <<"o">> >>
BaseNameOfSource == <<"f", " ">>
FilePath == JoinPath(FileDir, BaseNameOfSource)

SafeChars == {"f", "d", "o", "_split", ".", "_", "-",
              "0", "1", "2", "3", "4", "5", "6", "7", "8", "9"}

\* safe_folder_name: every character outside [alnum._-] becomes "_"
safe_folder_name(name) ==
    [i \in 1..Len(name) |-> IF name[i] \in SafeChars THEN name[i] ELSE "_"]

DigitChar(d) == <<"0", "1", "2", "3", "4", "5", "6", "7", "8", "9">>[d + 1]

RECURSIVE Decimal(_)
Decimal(n) == IF n < 10 THEN <<DigitChar(n)>>
              ELSE Decimal(n \div 10) \o <<DigitChar(n % 10)>>

\* f"{idx:03d}": decimal, left-padded with zeros to at least 3 digits
Format03d(n) ==
    LET d == Decimal(n)
    IN  IF Len(d) >= 3 THEN d
        ELSE [i \in 1..(3 - Len(d)) |-> "0"] \o d

\* a part name numbered from 0, which the naming property must tell apart
PartNameZeroBased(base_name, idx) == base_name \o <<".part">> \o Format03d(idx - 1)

\* f"{base_name}.part{idx:03d}"
PartName(base_name, idx) == base_name \o <<".part">> \o Format03d(idx)

\* f"{base_name}.manifest.json"
ManifestName(base_name) == base_name \o <<".manifest.json">>

\* ------------------------------------------------------------------ md5
\* hashlib.md5 is a library function; it is modelled by a streaming digest
\* with a small range, so that distinct contents can share a digest as two
\* contents can under any fixed-width hash.
MD5Init == 1
MD5Update(h, buf) ==
    LET RECURSIVE Go(_, _)
        Go(x, i) == IF i > Len(buf) THEN x
                    ELSE Go((3 * x + buf[i] + 1) % MD5_RANGE, i + 1)
    IN  Go(h, 1)

\* md5sum(path): digest of the whole current content, read block by block
md5sum(content) == MD5Update(MD5Init, content)

\* a read that loses the last byte it should deliver, which the round trip
\* must tell apart
ReadShort(content, pos, n) == SubSeq(content, pos + 1, Min(pos + n, Len(content)) - 1)

\* f.read(n) on a binary file at offset pos, n >= 0: the next n bytes, fewer
\* at the end of the file, none after it
ReadAt(content, pos, n) == SubSeq(content, pos + 1, Min(pos + n, Len(content)))

\* f.read(-1): everything from pos to the end of the file
ReadAll(content, pos) == SubSeq(content, pos + 1, Len(content))


\* JSON values whose type matters to the joiner: a number and a string
JsonNumber(n) == [number |-> n]
JsonString(str) == [string |-> str]
IsNumber(v) == "number" \in DOMAIN v

\* ---------------------------------------------------------------- state
VARIABLES
    dirs,        \* the directories that exist
    files,       \* path -> bytes, the byte files that exist
    manifests,   \* path -> dictionary, the JSON files that exist
    stat_excess, \* os.path.getsize(source) minus the bytes read() delivers
    sp,          \* the running or last split_file call: position and locals
    jn,          \* the running or last join_from_manifest call
    runs,        \* split_file calls so far: "none", "first" or "again"
    tampered,    \* what was done to a part between split and join
    pre          \* the file system when the current call started

vars == <<dirs, files, manifests, stat_excess, sp, jn, runs, tampered, pre>>

Exists(path) == path \in DOMAIN files \/ path \in DOMAIN manifests

\* what `pre` records when a call starts (used by the frame properties only)
Snapshot == [dirs |-> dirs, files |-> files, manifests |-> manifests]

\* open(path, "wb"): the file exists and is empty afterwards, whatever it held
OpenWb(fs, path) == [q \in (DOMAIN fs) \cup {path} |-> IF q = path THEN <<>> ELSE fs[q]]

WriteTo(fs, path, buf) == [fs EXCEPT ![path] = @ \o buf]

Remove(fs, path) == [q \in (DOMAIN fs) \ {path} |-> fs[q]]

\* os.path.getsize(file_path)
GetSize(path) == Len(files[path]) + stat_excess

SpIdle == [pc |-> "idle", variant |-> "none", chunk_size |-> 0, output_dir |-> None,
           total_size |-> 0, parts |-> <<>>, idx |-> 0, bytes_left |-> 0,
           to_write |-> 0, written |-> 0, md5 |-> MD5Init, pos |-> 0,
           result |-> "none"]

JnIdle == [pc |-> "idle", variant |-> "none", manifest_path |-> None, manifest |-> <<>>,
           base_dir |-> None, output_dir |-> None, out_path |-> None, i |-> 0,
           p_pos |-> 0, result |-> "none", error_part |-> None]

\* the source files tried: of every length up to MaxLen, one whose bytes are all
\* different and one whose bytes are all the same
Sources == {[i \in 1..n |-> i - 1] : n \in 0..MaxLen}
               \cup {[i \in 1..n |-> 0] : n \in 0..MaxLen}

Init ==
    /\ dirs = {FileDir, OtherDir}
    /\ \E content \in Sources : files = (FilePath :> content)
    /\ manifests = << >>
    /\ stat_excess \in 0..MaxExcess
    /\ sp = SpIdle
    /\ jn = JnIdle
    /\ runs = "none"
    /\ tampered = [kind |-> "none", path |-> None]
    /\ pre = Snapshot

\* ------------------------------------------- splitter_utility.split_file
\* the chunk sizes tried: the positive ones and -2, -1, 0
ChunkSizes == {-2, -1} \cup 0..MaxChunk

\* the default output directory of splitter_utility: <parent>/<base_name>_split
DefaultOutputDir(file_path) ==
    JoinPath(Dirname(file_path), Basename(file_path) \o <<"_split">>)

\* the output directory of splitter.py: <file_dir>/safe_folder_name(<base_name>_split)
SafeOutputDir(file_path) ==
    JoinPath(Dirname(file_path), safe_folder_name(Basename(file_path) \o <<"_split">>))

OutputDirArgs == {None, SafeOutputDir(FilePath)}

CanSplit == /\ sp.pc \in {"idle", "done", "failed", "killed"}
            /\ jn.pc = "idle"
            /\ tampered.kind = "none"
            /\ runs \in {"none", "first"}

\* lines 30-54: checks, output directory, opening the source
USplitCall(output_dir, chunk_size) ==
    /\ CanSplit
    /\ runs' = IF runs = "none" THEN "first" ELSE "again"
    /\ pre' = Snapshot
    /\ IF ~Exists(FilePath)
       THEN /\ sp' = [SpIdle EXCEPT !.pc = "failed", !.variant = "utility",
                          !.chunk_size = chunk_size, !.result = "FileNotFoundError"]
            /\ UNCHANGED dirs
       ELSE IF chunk_size <= 0
       THEN /\ sp' = [SpIdle EXCEPT !.pc = "failed", !.variant = "utility",
                          !.chunk_size = chunk_size, !.result = "ValueError"]
            /\ UNCHANGED dirs
       ELSE LET od == IF output_dir = None THEN DefaultOutputDir(FilePath)
                      ELSE output_dir
            IN  /\ dirs' = Makedirs(dirs, od)
                /\ sp' = [SpIdle EXCEPT !.pc = "outer", !.variant = "utility",
                              !.chunk_size = chunk_size, !.output_dir = od,
                              !.total_size = GetSize(FilePath), !.idx = 1,
                              !.bytes_left = GetSize(FilePath)]
    /\ UNCHANGED <<files, manifests, stat_excess, jn, tampered>>

\* line 56: to_write = min(chunk_size, bytes_left)
ToWrite(chunk_size, bytes_left) == Min(chunk_size, bytes_left)

\* lines 55-62: the outer loop test and the opening of the next part file
UOuter ==
    /\ sp.pc = "outer"
    /\ IF sp.bytes_left > 0
       THEN /\ sp.idx <= MaxIdx
            /\ files' = OpenWb(files, JoinPath(sp.output_dir,
                                               PartName(BaseNameOfSource, sp.idx)))
            /\ sp' = [sp EXCEPT !.pc = "inner",
                                !.to_write = ToWrite(sp.chunk_size, sp.bytes_left),
                                !.md5 = MD5Init, !.written = 0]
       ELSE /\ sp' = [sp EXCEPT !.pc = "manifest"]
            /\ UNCHANGED files
    /\ UNCHANGED <<dirs, manifests, stat_excess, jn, runs, tampered, pre>>

\* lines 63-71: one pass of the inner loop, copying one block
UInner ==
    /\ sp.pc = "inner"
    /\ IF sp.written < sp.to_write
       THEN LET block == Min(WRITE_BLOCK, sp.to_write - sp.written)
                buf == ReadAt(files[FilePath], sp.pos, block)
                part_path == JoinPath(sp.output_dir, PartName(BaseNameOfSource, sp.idx))
            IN  IF buf = <<>>
                THEN /\ sp' = [sp EXCEPT !.pc = "part_done"]
                     /\ UNCHANGED files
                ELSE /\ files' = WriteTo(files, part_path, buf)
                     /\ sp' = [sp EXCEPT !.md5 = MD5Update(@, buf),
                                         !.written = @ + Len(buf),
                                         !.pos = @ + Len(buf)]
       ELSE /\ sp' = [sp EXCEPT !.pc = "part_done"]
            /\ UNCHANGED files
    /\ UNCHANGED <<dirs, manifests, stat_excess, jn, runs, tampered, pre>>

\* lines 73-76: the part file is closed and recorded; idx and bytes_left move on
UPartDone ==
    /\ sp.pc = "part_done"
    /\ sp' = [sp EXCEPT !.pc = "outer",
                        !.parts = Append(@, [filename |-> PartName(BaseNameOfSource, sp.idx),
                                             size |-> JsonNumber(sp.written),
                                             md5 |-> sp.md5]),
                        !.idx = @ + 1,
                        !.bytes_left = @ - sp.written]
    /\ UNCHANGED <<dirs, files, manifests, stat_excess, jn, runs, tampered, pre>>

\* json.dump of the manifest dictionary (lines 78-87 and splitter.py 72-82)
ManifestOf(base_name, parts, chunk_size) ==
    [original_filename |-> base_name,
     total_parts |-> Len(parts),
     chunk_size_bytes |-> chunk_size,
     timestamp |-> "now",
     parts |-> parts]

ManifestPathOf(output_dir) == JoinPath(output_dir, ManifestName(BaseNameOfSource))

PutManifest(ms, path, m) == [q \in (DOMAIN ms) \cup {path} |-> IF q = path THEN m ELSE ms[q]]

\* the manifest is written and its path returned (both splitters)
WriteManifest ==
    /\ sp.pc = "manifest"
    /\ manifests' = PutManifest(manifests, ManifestPathOf(sp.output_dir),
                                ManifestOf(BaseNameOfSource, sp.parts, sp.chunk_size))
    /\ files' = Remove(files, ManifestPathOf(sp.output_dir))
    /\ sp' = [sp EXCEPT !.pc = "done", !.result = "ok"]
    /\ UNCHANGED <<dirs, stat_excess, jn, runs, tampered, pre>>

\* ------------------------------------------------- splitter.split_file
\* lines 32-54: no argument check; the output directory is created first
BSplitCall(chunk_size) ==
    /\ CanSplit
    /\ runs' = IF runs = "none" THEN "first" ELSE "again"
    /\ pre' = Snapshot
    /\ dirs' = Makedirs(dirs, SafeOutputDir(FilePath))
    /\ IF ~Exists(FilePath)
       THEN sp' = [SpIdle EXCEPT !.pc = "failed", !.variant = "basic",
                       !.chunk_size = chunk_size,
                       !.output_dir = SafeOutputDir(FilePath),
                       !.result = "FileNotFoundError"]
       ELSE sp' = [SpIdle EXCEPT !.pc = "read", !.variant = "basic",
                       !.chunk_size = chunk_size,
                       !.output_dir = SafeOutputDir(FilePath),
                       !.total_size = GetSize(FilePath), !.idx = 1]
    /\ UNCHANGED <<files, manifests, stat_excess, jn, tampered>>

\* lines 56-64: chunk = infile.read(chunk_size); an empty chunk ends the loop,
\* any other is written to the next part file.  read(-1) reads to the end of
\* the file and read(n) raises ValueError for n < -1.
BRead ==
    /\ sp.pc = "read"
    /\ IF sp.chunk_size < -1
       THEN /\ sp' = [sp EXCEPT !.pc = "failed", !.result = "ValueError"]
            /\ UNCHANGED files
       ELSE LET chunk == IF sp.chunk_size = -1 THEN ReadAll(files[FilePath], sp.pos)
                         ELSE ReadAt(files[FilePath], sp.pos, sp.chunk_size)
                part_path == JoinPath(sp.output_dir, PartName(BaseNameOfSource, sp.idx))
            IN  IF chunk = <<>>
                THEN /\ sp' = [sp EXCEPT !.pc = "manifest"]
                     /\ UNCHANGED files
                ELSE /\ files' = WriteTo(OpenWb(files, part_path), part_path, chunk)
                     /\ sp' = [sp EXCEPT !.pc = "record", !.pos = @ + Len(chunk),
                                         !.written = Len(chunk)]
    /\ UNCHANGED <<dirs, manifests, stat_excess, jn, runs, tampered, pre>>

\* lines 66-70: md5sum of the part just written, the record, idx += 1
BRecord ==
    /\ sp.pc = "record"
    /\ LET part_name == PartName(BaseNameOfSource, sp.idx)
           part_path == JoinPath(sp.output_dir, part_name)
       IN  sp' = [sp EXCEPT !.pc = "read",
                            !.parts = Append(@, [filename |-> part_name,
                                                 size |-> JsonNumber(sp.written),
                                                 md5 |-> md5sum(files[part_path])]),
                            !.idx = @ + 1]
    /\ UNCHANGED <<dirs, files, manifests, stat_excess, jn, runs, tampered, pre>>

\* the process is terminated while split_file runs
SplitInterrupted ==
    /\ sp.pc \in {"outer", "inner", "part_done", "read", "record", "manifest"}
    /\ sp' = [sp EXCEPT !.pc = "killed", !.result = "interrupted"]
    /\ UNCHANGED <<dirs, files, manifests, stat_excess, jn, runs, tampered, pre>>

\* ------------------------------------------ what happens between the runs
\* contents a part file can be changed to: one byte flipped, the last byte
\* dropped, or a byte appended
Mutations(c) ==
    {[c EXCEPT ![i] = (@ + 1) % (MaxLen + 1)] : i \in 1..Len(c)}
        \cup (IF Len(c) > 0 THEN {SubSeq(c, 1, Len(c) - 1)} ELSE {})
        \cup {Append(c, 0)}

CanTamper == /\ sp.pc = "done"
             /\ jn.pc = "idle"
             /\ tampered.kind = "none"

\* a part file of the finished split is overwritten with other content
CorruptPart(k) ==
    /\ CanTamper
    /\ k \in 1..Len(sp.parts)
    /\ LET path == JoinPath(sp.output_dir, sp.parts[k].filename)
       IN  /\ \E c \in Mutations(files[path]) : files' = [files EXCEPT ![path] = c]
           /\ tampered' = [kind |-> "corrupt", path |-> path]
    /\ UNCHANGED <<dirs, manifests, stat_excess, sp, jn, runs, pre>>

\* a part file of the finished split is deleted
DeletePart(k) ==
    /\ CanTamper
    /\ k \in 1..Len(sp.parts)
    /\ LET path == JoinPath(sp.output_dir, sp.parts[k].filename)
       IN  /\ files' = Remove(files, path)
           /\ tampered' = [kind |-> "delete", path |-> path]
    /\ UNCHANGED <<dirs, manifests, stat_excess, sp, jn, runs, pre>>

\* ------------------------------------------------- join_from_manifest
MaxOut == MaxLen * MaxChunk + 2  \* output length at which a runaway append is cut off

JoinOutputArgs == {None, OtherDir}

Has(d, key) == key \in DOMAIN d

\* total_size = sum(p["size"] for p in manifest["parts"]): the first part
\* without a size raises KeyError, the first whose size is no number TypeError
SumSizesError(parts) ==
    LET bad == {i \in 1..Len(parts) : ~Has(parts[i], "size") \/ ~IsNumber(parts[i].size)}
    IN  IF bad = {} THEN "none"
        ELSE LET i == CHOOSE i \in bad : \A j \in bad : i <= j
             IN  IF ~Has(parts[i], "size") THEN "KeyError" ELSE "TypeError"

\* the error that lines 16-27 raise before the output file is opened
LoadError(m) ==
    IF ~Has(m, "original_filename") THEN "KeyError"
    ELSE IF ~Has(m, "parts") THEN "KeyError"
    ELSE IF SumSizesError(m.parts) # "none" THEN SumSizesError(m.parts)
    ELSE IF ~Has(m, "total_parts") THEN "KeyError"
    ELSE "none"

\* the parts taken last to first, which the ordering property must tell apart
PartAtReversed(parts, i) == parts[Len(parts) + 1 - i]

\* for part in manifest["parts"]: the i-th part of the loop
PartAt(parts, i) == parts[i]

\* a part looked up in the output directory, which missing-part detection
\* must tell apart
PartPathInOutputDir(base_dir, output_dir, filename) == JoinPath(output_dir, filename)

\* part_path = os.path.join(base_dir, part["filename"])
PartPath(base_dir, output_dir, filename) == JoinPath(base_dir, filename)

\* a comparison that accepts every digest, which corruption detection must
\* tell apart
ChecksumIgnored(md5_actual, md5_recorded) == TRUE

\* the comparison md5_actual != part["md5"], as "the checksum is accepted"
ChecksumOk(md5_actual, md5_recorded) == md5_actual = md5_recorded

\* joiner_utility.py lines 15-29 and joiner.py lines 14-26: the manifest is
\* loaded, the output directory made (joiner_utility only) and the output
\* file opened for writing
JoinCall(variant, manifest_path, output_dir_arg) ==
    /\ jn.pc = "idle"
    /\ sp.pc \in {"idle", "done", "failed", "killed"}
    /\ manifest_path \in DOMAIN manifests
    /\ variant = "basic" => output_dir_arg = None
    /\ pre' = Snapshot
    /\ LET manifest == manifests[manifest_path]
           base_dir == Dirname(manifest_path)
           output_dir == IF output_dir_arg = None THEN base_dir ELSE output_dir_arg
           call == [JnIdle EXCEPT !.variant = variant, !.manifest_path = manifest_path,
                                  !.manifest = manifest, !.base_dir = base_dir,
                                  !.output_dir = output_dir]
       IN  /\ dirs' = IF variant = "utility" THEN Makedirs(dirs, output_dir) ELSE dirs
           /\ IF LoadError(manifest) # "none"
              THEN /\ jn' = [call EXCEPT !.pc = "failed", !.result = LoadError(manifest)]
                   /\ UNCHANGED <<files, manifests>>
              ELSE LET out_path == JoinPath(output_dir, manifest.original_filename)
                   IN  /\ jn' = [call EXCEPT !.pc = "verify", !.out_path = out_path,
                                             !.i = 1]
                       /\ files' = OpenWb(files, out_path)
                       /\ manifests' = Remove(manifests, out_path)
    /\ UNCHANGED <<stat_excess, sp, runs, tampered>>

\* lines 37-46 (joiner.py 34-42): the loop head; the next part is resolved,
\* must exist and must have the recorded digest.  After the last part the
\* output file is closed and its path returned.
JVerify ==
    /\ jn.pc = "verify"
    /\ IF jn.i > Len(jn.manifest.parts)
       THEN jn' = [jn EXCEPT !.pc = "done", !.result = "ok"]
       ELSE LET part == PartAt(jn.manifest.parts, jn.i)
            IN  IF ~Has(part, "filename")
                THEN jn' = [jn EXCEPT !.pc = "failed", !.result = "KeyError"]
                ELSE LET part_path == PartPath(jn.base_dir, jn.output_dir, part.filename)
                     IN  IF ~Exists(part_path)
                         THEN jn' = [jn EXCEPT !.pc = "failed",
                                               !.result = "FileNotFoundError",
                                               !.error_part = part.filename]
                         ELSE IF ~Has(part, "md5")
                         THEN jn' = [jn EXCEPT !.pc = "failed", !.result = "KeyError"]
                         ELSE IF ~ChecksumOk(md5sum(files[part_path]), part.md5)
                         THEN jn' = [jn EXCEPT !.pc = "failed", !.result = "ValueError",
                                               !.error_part = part.filename]
                         ELSE jn' = [jn EXCEPT !.pc = "append", !.p_pos = 0]
    /\ UNCHANGED <<dirs, files, manifests, stat_excess, sp, runs, tampered, pre>>

\* lines 47-51 (joiner.py 44-49): one chunk of the verified part is appended
\* to the output; the empty read ends the part
JAppend ==
    /\ jn.pc = "append"
    /\ Len(files[jn.out_path]) <= MaxOut
    /\ LET part == PartAt(jn.manifest.parts, jn.i)
           part_path == PartPath(jn.base_dir, jn.output_dir, part.filename)
           chunk == ReadAt(files[part_path], jn.p_pos, JOIN_BLOCK)
       IN  IF chunk = <<>>
           THEN /\ jn' = [jn EXCEPT !.pc = "verify", !.i = @ + 1]
                /\ UNCHANGED files
           ELSE /\ files' = WriteTo(files, jn.out_path, chunk)
                /\ jn' = [jn EXCEPT !.p_pos = @ + Len(chunk)]
    /\ UNCHANGED <<dirs, manifests, stat_excess, sp, runs, tampered, pre>>

\* -------------------------------------------------------- specification
Next ==
    \/ \E od \in OutputDirArgs, c \in ChunkSizes : USplitCall(od, c)
    \/ UOuter
    \/ UInner
    \/ UPartDone
    \/ \E c \in ChunkSizes : BSplitCall(c)
    \/ BRead
    \/ BRecord
    \/ WriteManifest
    \/ SplitInterrupted
    \/ \E k \in 1..MaxIdx : CorruptPart(k)
    \/ \E k \in 1..MaxIdx : DeletePart(k)
    \/ \E v \in {"utility", "basic"}, mp \in DOMAIN manifests, od \in JoinOutputArgs :
           JoinCall(v, mp, od)
    \/ JVerify
    \/ JAppend

Spec == Init /\ [][Next]_vars

\* ----------------------------------------------------------------------
\* The joiner alone, on a manifest that need not come from split_file: any
\* JSON dictionary can be on disk when join_from_manifest is called.
JDir == SafeOutputDir(FilePath)
JManifestPath == ManifestPathOf(JDir)
JPartNames == {PartName(BaseNameOfSource, 1), PartName(BaseNameOfSource, 2)}
JContents == {<<>>, <<0>>, <<0, 1, 2>>}

\* the directory's part files: each is absent or has one of the contents
JFileSystems ==
    UNION {[{JoinPath(JDir, n) : n \in present} -> JContents] : present \in SUBSET JPartNames}

\* the record split_file would write for the file of that name
JRecord(fs, name) ==
    LET path == JoinPath(JDir, name)
        content == IF path \in DOMAIN fs THEN fs[path] ELSE <<>>
    IN  [filename |-> name, size |-> JsonNumber(Len(content)), md5 |-> md5sum(content)]

JPartLists == UNION {[1..n -> JPartNames] : n \in 0..2}

Drop(d, key) == [k \in (DOMAIN d) \ {key} |-> d[k]]

JDefects == {"none", "no original_filename", "no total_parts", "no chunk_size_bytes",
             "no timestamp", "no parts", "no filename", "no size", "no md5",
             "size not a number", "md5 wrong"}

\* a manifest with one thing wrong with it; the part-level defects are in
\* the first part
WithDefect(m, defect) ==
    LET first(r) == [m EXCEPT !.parts = [@ EXCEPT ![1] = r]]
    IN  CASE defect = "none" -> m
          [] defect = "no original_filename" -> Drop(m, "original_filename")
          [] defect = "no total_parts" -> Drop(m, "total_parts")
          [] defect = "no chunk_size_bytes" -> Drop(m, "chunk_size_bytes")
          [] defect = "no timestamp" -> Drop(m, "timestamp")
          [] defect = "no parts" -> Drop(m, "parts")
          [] Len(m.parts) = 0 -> m
          [] defect = "no filename" -> first(Drop(m.parts[1], "filename"))
          [] defect = "no size" -> first(Drop(m.parts[1], "size"))
          [] defect = "no md5" -> first(Drop(m.parts[1], "md5"))
          [] defect = "size not a number" -> first([m.parts[1] EXCEPT !.size = JsonString("x")])
          [] defect = "md5 wrong" -> first([m.parts[1] EXCEPT !.md5 = (@ + 1) % MD5_RANGE])

JOriginalNames == {BaseNameOfSource, ManifestName(BaseNameOfSource)} \cup JPartNames

InitJ ==
    /\ dirs = {FileDir, OtherDir, JDir}
    /\ files \in JFileSystems
    /\ \E names \in JPartLists, orig \in JOriginalNames, extra \in {0, 1},
          defect \in JDefects :
           manifests = (JManifestPath :>
               WithDefect([original_filename |-> orig,
                           total_parts |-> Len(names) + extra,
                           chunk_size_bytes |-> 3,
                           timestamp |-> "now",
                           parts |-> [i \in 1..Len(names) |-> JRecord(files, names[i])]],
                          defect))
    /\ stat_excess = 0
    /\ sp = SpIdle
    /\ jn = JnIdle
    /\ runs = "none"
    /\ tampered = [kind |-> "none", path |-> None]
    /\ pre = Snapshot

NextJ ==
    \/ \E v \in {"utility", "basic"}, mp \in DOMAIN manifests, od \in JoinOutputArgs :
           JoinCall(v, mp, od)
    \/ JVerify
    \/ JAppend

SpecJ == InitJ /\ [][NextJ]_vars

\* ----------------------------------------------------------------------
\* Properties
\* ----------------------------------------------------------------------
RECURSIVE Concat(_)
Concat(ss) == IF Len(ss) = 0 THEN <<>> ELSE Head(ss) \o Concat(Tail(ss))

CeilDiv(a, b) == (a + b - 1) \div b

IsPrefix(a, b) == Len(a) <= Len(b) /\ SubSeq(b, 1, Len(a)) = a

RECURSIVE SumSizes(_)
SumSizes(parts) == IF Len(parts) = 0 THEN 0
                   ELSE Head(parts).size.number + SumSizes(Tail(parts))

Source == files[FilePath]

\* the source is a regular file: getsize reports the bytes read() delivers
RegularSource == stat_excess = 0

SplitRunning == sp.pc \in {"outer", "inner", "part_done", "read", "record", "manifest"}

\* the join under way, or ended, reads the manifest the last split returned
JoinedLastSplit ==
    /\ sp.pc = "done"
    /\ jn.pc # "idle"
    /\ jn.manifest_path = ManifestPathOf(sp.output_dir)

JoinEnded == jn.pc \in {"done", "failed"}

JoinParts == jn.manifest.parts

\* the current content of the i-th part the joined manifest lists
PartContent(i) == files[JoinPath(jn.base_dir, JoinParts[i].filename)]

\* the content of the listed parts 1..k-1, concatenated in manifest order
Before(k) == Concat([i \in 1..(k - 1) |-> PartContent(i)])

\* the place in the joined manifest of the part that was changed or deleted
TamperedAt ==
    CHOOSE k \in 1..Len(JoinParts) :
        JoinPath(jn.base_dir, JoinParts[k].filename) = tampered.path

\* C1: Round-trip.  When a split of a regular source file with a chunk size
\* > 0 has returned its manifest and the parts are left alone, the join of
\* that manifest ends with success and the output file holds exactly the
\* bytes of the source.
RoundTrip ==
    (JoinedLastSplit /\ JoinEnded /\ sp.chunk_size > 0 /\ RegularSource
        /\ tampered.kind = "none")
    => /\ jn.pc = "done"
       /\ jn.result = "ok"
       /\ jn.out_path \in DOMAIN files
       /\ files[jn.out_path] = Source

RoundTripWitness ==
    /\ JoinedLastSplit /\ jn.pc = "done" /\ sp.chunk_size > 0 /\ RegularSource
    /\ tampered.kind = "none"
    /\ Len(JoinParts) >= 2
    /\ Len(Source) % sp.chunk_size # 0
    /\ jn.out_path # FilePath

\* the name expected of part i, for i < 10
ExpectedPartName(i) ==
    BaseNameOfSource \o <<".part", "0", "0">>
        \o << <<"1", "2", "3", "4", "5", "6", "7", "8", "9">>[i] >>

ChunkingCase ==
    /\ sp.pc = "done" /\ sp.chunk_size > 0 /\ RegularSource /\ Len(Source) > 0
    /\ tampered.kind = "none"

\* C2: Chunking correctness.  After a split of S > 0 bytes with chunk size
\* C > 0 the manifest has total_parts = len(parts) = ceil(S / C) and
\* chunk_size_bytes = C; part i is named <basename>.part<00i>, has size C
\* except the last, whose size is S mod C (C when C divides S), and holds
\* the source bytes from (i-1)*C up to min(i*C, S); the sizes sum to S.
ChunkingCorrect ==
    ChunkingCase =>
        LET m == manifests[ManifestPathOf(sp.output_dir)]
            S == Len(Source)
            C == sp.chunk_size
            n == CeilDiv(S, C)
        IN  /\ m.total_parts = n
            /\ Len(m.parts) = n
            /\ m.chunk_size_bytes = C
            /\ m.original_filename = BaseNameOfSource
            /\ \A i \in 1..n :
                /\ m.parts[i].filename = ExpectedPartName(i)
                /\ m.parts[i].size =
                       JsonNumber(IF i < n THEN C ELSE IF S % C = 0 THEN C ELSE S % C)
                /\ JoinPath(sp.output_dir, ExpectedPartName(i)) \in DOMAIN files
                /\ files[JoinPath(sp.output_dir, ExpectedPartName(i))]
                       = SubSeq(Source, (i - 1) * C + 1, Min(i * C, S))
                /\ m.parts[i].md5
                       = md5sum(SubSeq(Source, (i - 1) * C + 1, Min(i * C, S)))
            /\ SumSizes(m.parts) = S

ChunkingWitness ==
    /\ ChunkingCase
    /\ sp.variant = "utility"
    /\ sp.chunk_size > WRITE_BLOCK
    /\ Len(Source) > sp.chunk_size
    /\ Len(Source) % sp.chunk_size # 0

CorruptCase ==
    /\ tampered.kind = "corrupt"
    /\ JoinedLastSplit
    /\ md5sum(files[tampered.path]) # JoinParts[TamperedAt].md5

\* C3: Corruption detection.  When one part k of a finished split was
\* changed so that its digest differs from the recorded one, the join never
\* ends with success: it reads no part after k, appends no byte of part k,
\* and ends with the checksum error naming part k, the output holding the
\* parts before k and nothing else.
CorruptionDetected ==
    CorruptCase =>
        /\ jn.pc # "done"
        /\ jn.i <= TamperedAt
        /\ jn.pc = "append" => jn.i < TamperedAt
        /\ IsPrefix(files[jn.out_path], Before(TamperedAt))
        /\ jn.pc = "failed" =>
               /\ jn.result = "ValueError"
               /\ jn.error_part = JoinParts[TamperedAt].filename
               /\ files[jn.out_path] = Before(TamperedAt)

CorruptionWitness ==
    /\ CorruptCase
    /\ jn.pc = "failed"
    /\ TamperedAt = 2
    /\ Len(JoinParts) = 3
    /\ files[jn.out_path] # <<>>

MissingCase ==
    /\ tampered.kind = "delete"
    /\ JoinedLastSplit

ManifestMeansComplete ==
    (sp.pc \in {"outer", "inner", "part_done", "read", "record", "manifest",
                "done", "killed"}
        /\ sp.chunk_size > 0
        /\ tampered.kind = "none"
        /\ ManifestPathOf(sp.output_dir) \in DOMAIN manifests
        /\ manifests[ManifestPathOf(sp.output_dir)].chunk_size_bytes > 0
        /\ ManifestPathOf(sp.output_dir) \in DOMAIN manifests)
    => LET m == manifests[ManifestPathOf(sp.output_dir)]
       IN  \A i \in 1..Len(m.parts) :
               LET path == JoinPath(sp.output_dir, m.parts[i].filename)
               IN  /\ path \in DOMAIN files
                   /\ Len(files[path]) = m.parts[i].size.number
                   /\ md5sum(files[path]) = m.parts[i].md5

\* C5: Invalid chunk size.  A split_file call of either splitter with a
\* chunk size <= 0 ends with the invalid-argument error and has made no
\* directory, written no part file and no manifest.
InvalidChunkRejected ==
    (sp.pc # "idle" /\ sp.chunk_size <= 0 /\ jn.pc = "idle")
    => /\ sp.pc = "failed"
       /\ sp.result = "ValueError"
       /\ dirs = pre.dirs
       /\ DOMAIN files = DOMAIN pre.files
       /\ DOMAIN manifests = DOMAIN pre.manifests

\* C10: Split termination.  Every pass of the outer loop of
\* splitter_utility.split_file strictly decreases bytes_left, also when the
\* source delivered no byte for the part.
OuterLoopDecreases ==
    [][(sp.pc = "part_done" /\ sp'.pc = "outer") => sp'.bytes_left < sp.bytes_left]_vars

WellFormedPart(r) ==
    /\ {"filename", "size", "md5"} \subseteq DOMAIN r
    /\ IsNumber(r.size)

WellFormed(m) ==
    /\ {"original_filename", "total_parts", "chunk_size_bytes", "timestamp", "parts"}
           \subseteq DOMAIN m
    /\ \A i \in 1..Len(m.parts) : WellFormedPart(m.parts[i])
    /\ m.total_parts = Len(m.parts)

\* C6: Manifest validation.  A manifest that lacks a required field, has a
\* malformed field or has total_parts # len(parts) makes the join fail with
\* a format error; it is never joined with success.
ManifestValidated ==
    (JoinEnded /\ ~WellFormed(jn.manifest))
    => /\ jn.pc = "failed"
       /\ jn.result \in {"KeyError", "TypeError"}

\* the paths the joined manifest names: itself and the parts it lists
ListedPaths ==
    {jn.manifest_path}
        \cup {JoinPath(jn.base_dir, jn.manifest.parts[i].filename) :
                i \in {j \in 1..Len(jn.manifest.parts) : Has(jn.manifest.parts[j], "filename")}}

SameAsBefore(path) ==
    /\ (path \in DOMAIN files) = (path \in DOMAIN pre.files)
    /\ (path \in DOMAIN manifests) = (path \in DOMAIN pre.manifests)
    /\ path \in DOMAIN files => files[path] = pre.files[path]
    /\ path \in DOMAIN manifests => manifests[path] = pre.manifests[path]

\* C8: Joiner frame.  For a manifest the join accepts, the manifest file and
\* every listed part file keep the content they had when the join started,
\* the output path is none of them, and no other file changes.
JoinFrame ==
    (jn.pc \in {"verify", "append", "done", "failed"} /\ jn.out_path # None)
    => /\ jn.out_path \notin ListedPaths
       /\ \A path \in ListedPaths : SameAsBefore(path)
       /\ \A path \in (DOMAIN files \cup DOMAIN pre.files
                           \cup DOMAIN manifests \cup DOMAIN pre.manifests)
                          \ {jn.out_path} : SameAsBefore(path)

====
